---- MODULE Spec2Model ----
(***************************************************************************)
(* Momentum scan of app.py: the "Run Momentum Scan" button handler.        *)
(* The handler walks tickers[:50], fetches market data per ticker, applies *)
(* the six filters, ranks the survivors by momentum and sizes positions.   *)
(*                                                                         *)
(* Numbers are exact rationals [k, n, d] with the float special values the *)
(* code can produce (nan, +inf, -inf) and the two non-numbers a dict       *)
(* lookup can give (None, key absent).                                     *)
(***************************************************************************)
EXTENDS Integers, Sequences, FiniteSets

VARIABLES
    tickers,        \* df_stocks["Symbol"].tolist(): the universe, in sheet order
    market,         \* what the data provider answers for each ticker
    inputs,         \* the widget values: risk_tolerance and the six thresholds
    pc,             \* position of the script: "idle", "scan", "stopped", "done"
    idx,            \* number of entries of tickers[:50] the loop has consumed
    visited,        \* the tickers the loop has taken, in the order it took them
    momentum_data,  \* the accumulating result list
    ranked,         \* df right after sort_values (line 119)
    df,             \* df as displayed (after head(num_stocks))
    allocation,     \* per-position percentage
    num_stocks,     \* number of positions
    output          \* what the page shows, in order of emission

vars == <<tickers, market, inputs, pc, idx, visited, momentum_data, ranked, df,
          allocation, num_stocks, output>>

----------------------------------------------------------------------------
(* Bounds of the model                                                     *)

MaxTickers == 3
MaxWideTickers == 52
MaxLen == 3
MaxPrice == 2
MaxTieAt == 2
MaxBadEvery == 2

----------------------------------------------------------------------------
(* Program constants                                                       *)

ScanLimit == 50
MaxPositions == 10
LowPct == 5
MediumPct == 8
HighPct == 12
Hundred == 100
MockRsiBase == 70
Billion == 1000000000
Million == 1000000

----------------------------------------------------------------------------
(* Values                                                                  *)

Abs(x) == IF x < 0 THEN -x ELSE x

RECURSIVE GCD(_, _)
GCD(a, b) == IF b = 0 THEN a ELSE GCD(b, a % b)

NaN == [k |-> "nan", n |-> 0, d |-> 1]
PosInf == [k |-> "inf", n |-> 1, d |-> 0]
NegInf == [k |-> "inf", n |-> -1, d |-> 0]
None == [k |-> "none", n |-> 0, d |-> 1]
Absent == [k |-> "absent", n |-> 0, d |-> 1]

\* the float n/d, d > 0, in lowest terms
Num(n, d) ==
    LET g == GCD(Abs(n), d)
    IN  [k |-> "num", n |-> n \div g, d |-> d \div g]

Int2Num(i) == Num(i, 1)

IsNaN(x) == x.k = "nan"

\* float division as numpy does it: x/0 is +-inf, 0/0 is nan, no exception
FDiv(a, b) ==
    IF IsNaN(a) \/ IsNaN(b) THEN NaN
    ELSE IF a.k = "inf" /\ b.k = "inf" THEN NaN
    ELSE IF a.k = "inf" THEN (IF b.n < 0 THEN [a EXCEPT !.n = -a.n] ELSE a)
    ELSE IF b.k = "inf" THEN Int2Num(0)
    ELSE IF b.n = 0 THEN (IF a.n = 0 THEN NaN ELSE IF a.n > 0 THEN PosInf ELSE NegInf)
    ELSE IF b.n > 0 THEN Num(a.n * b.d, a.d * b.n)
    ELSE Num(-(a.n * b.d), a.d * (-b.n))

FAdd(a, b) ==
    IF IsNaN(a) \/ IsNaN(b) THEN NaN
    ELSE IF a.k = "inf" /\ b.k = "inf" THEN (IF a.n = b.n THEN a ELSE NaN)
    ELSE IF a.k = "inf" THEN a
    ELSE IF b.k = "inf" THEN b
    ELSE Num(a.n * b.d + b.n * a.d, a.d * b.d)

FNeg(a) == IF IsNaN(a) THEN NaN ELSE [a EXCEPT !.n = -a.n]

FSub(a, b) == FAdd(a, FNeg(b))

FMul(a, b) ==
    IF IsNaN(a) \/ IsNaN(b) THEN NaN
    ELSE IF a.k = "inf" \/ b.k = "inf"
         THEN (IF a.n = 0 \/ b.n = 0 THEN NaN
               ELSE IF (a.n > 0) = (b.n > 0) THEN PosInf ELSE NegInf)
    ELSE Num(a.n * b.n, a.d * b.d)

\* a >= b on floats: false as soon as one side is nan
FGe(a, b) == /\ ~IsNaN(a)
             /\ ~IsNaN(b)
             /\ IF a.k = "inf" /\ b.k = "inf" THEN a.n >= b.n
                ELSE a.n * b.d >= b.n * a.d

FLe(a, b) == FGe(b, a)

FEq(a, b) == FGe(a, b) /\ FGe(b, a)

\* Python's min(a, b): b only when b < a
PyMin(a, b) == IF FGe(b, a) THEN a ELSE b

MinInt(a, b) == IF a <= b THEN a ELSE b

----------------------------------------------------------------------------
(* Per-ticker computation: lines 69-71 and 77-113                          *)

RECURSIVE SumSkipNa(_)
\* pandas sum with skipna: nan entries are left out
SumSkipNa(s) ==
    IF s = <<>> THEN Int2Num(0)
    ELSE IF IsNaN(Head(s)) THEN SumSkipNa(Tail(s))
    ELSE FAdd(Head(s), SumSkipNa(Tail(s)))

CountNotNa(s) == Cardinality({m \in DOMAIN s : ~IsNaN(s[m])})

\* Series.mean(): nan when nothing is left to average
Mean(s) ==
    IF CountNotNa(s) = 0 THEN NaN
    ELSE FDiv(SumSkipNa(s), Int2Num(CountNotNa(s)))

\* Series.pct_change(): first entry nan, then c[j]/c[j-1] - 1
PctChange(c) ==
    [j \in DOMAIN c |->
        IF j = 1 THEN NaN
        ELSE FSub(FDiv(Int2Num(c[j]), Int2Num(c[j - 1])), Int2Num(1))]

ToNums(c) == [j \in DOMAIN c |-> Int2Num(c[j])]

Raised(why) == [raise |-> TRUE, why |-> why, v |-> NaN]
Returned(v) == [raise |-> FALSE, why |-> "", v |-> v]

\* (data[-1] / data[0] - 1) * 100 with only the last sample looked at
calculate_momentum_last_only(dl) ==
    IF dl.err THEN Raised("download")
    ELSE IF Len(dl.close) < 2 THEN Raised("index")
    ELSE Returned(FMul(FSub(FDiv(Int2Num(dl.close[Len(dl.close)]),
                                 Int2Num(dl.close[Len(dl.close) - 1])),
                            Int2Num(1)),
                       Int2Num(Hundred)))

\* calculate_momentum on the downloaded Close series dl of one ticker
calculate_momentum(dl) ==
    IF dl.err THEN Raised("download")
    ELSE IF dl.close = <<>> THEN Raised("index")
    ELSE Returned(FMul(FSub(FDiv(Int2Num(dl.close[Len(dl.close)]),
                                 Int2Num(dl.close[1])),
                            Int2Num(1)),
                       Int2Num(Hundred)))

\* rsi = 70 - (hist["Close"].pct_change().mean() * 100)
MockRsi(hist) ==
    FSub(Int2Num(MockRsiBase),
         FMul(Mean(PctChange(hist.close)), Int2Num(Hundred)))

\* avg_volume = hist["Volume"].mean() / 1e6
AvgVolume(hist) == FDiv(Mean(ToNums(hist.volume)), Int2Num(Million))

\* Python truthiness of info.get(key): None, a missing key and 0 are falsy
Truthy(x) == \/ x.k \in {"nan", "inf"}
             \/ (x.k = "num" /\ x.n # 0)

\* info.get(key, dflt)
InfoGet(x, dflt) == IF x = Absent THEN dflt ELSE x

TrailingPE(info) == InfoGet(info.trailingPE, NaN)

ReturnOnEquity(info) ==
    IF Truthy(info.returnOnEquity)
    THEN FMul(InfoGet(info.returnOnEquity, NaN), Int2Num(Hundred))
    ELSE NaN

DebtToEquity(info) == InfoGet(info.debtToEquity, NaN)

\* info.get("marketCap", 0)
MarketCapRaw(info) == InfoGet(info.marketCap, Int2Num(0))

\* the six filter predicates of lines 96-101, on values that are floats
PredPE(v, inp) == IF ~IsNaN(v.pe) THEN FGe(v.pe, inp.min_pe) ELSE FALSE
PredROE(v, inp) == IF ~IsNaN(v.roe) THEN FGe(v.roe, inp.min_roe) ELSE FALSE
PredDE_flipped(v, inp) == IF ~IsNaN(v.de) THEN FGe(v.de, inp.max_debt_equity) ELSE FALSE
PredDE(v, inp) == IF ~IsNaN(v.de) THEN FLe(v.de, inp.max_debt_equity) ELSE FALSE
PredCap(v, inp) == FGe(v.market_cap, inp.min_market_cap)
PredRSI(v, inp) == FGe(v.rsi, inp.min_rsi)
PredVolume(v, inp) == FGe(v.avg_volume, inp.min_volume)

\* the condition of the if statement, evaluated left to right with Python's
\* short-circuit "and": np.isnan(None) raises TypeError when it is reached
FilterOutcome(v, inp) ==
    IF v.pe = None THEN "raise"
    ELSE IF ~PredPE(v, inp) THEN "fail"
    ELSE IF ~PredROE(v, inp) THEN "fail"
    ELSE IF v.de = None THEN "raise"
    ELSE IF ~PredDE(v, inp) THEN "fail"
    ELSE IF ~PredCap(v, inp) THEN "fail"
    ELSE IF ~PredRSI(v, inp) THEN "fail"
    ELSE IF ~PredVolume(v, inp) THEN "fail"
    ELSE "pass"

\* the locals of one iteration once lines 79-92 have run without raising
Indicators(md) ==
    [mom        |-> calculate_momentum(md.download).v,
     rsi        |-> MockRsi(md.history),
     avg_volume |-> AvgVolume(md.history),
     pe         |-> TrailingPE(md.info),
     roe        |-> ReturnOnEquity(md.info),
     de         |-> DebtToEquity(md.info),
     market_cap |-> FDiv(MarketCapRaw(md.info), Int2Num(Billion))]

\* where lines 79-92 raise, "" when they do not
FetchRaises(md) ==
    IF calculate_momentum(md.download).raise THEN calculate_momentum(md.download).why
    ELSE IF md.history.err THEN "history"
    ELSE IF md.info.err THEN "info"
    ELSE IF md.info.marketCap = None THEN "TypeError"
    ELSE ""

Row(ticker, v) ==
    [Ticker |-> ticker, Momentum |-> v.mom, RSI |-> v.rsi, Volume |-> v.avg_volume,
     PE |-> v.pe, ROE |-> v.roe, DE |-> v.de]

\* one pass of the try block for `ticker`: "row" (appended), "skip" (filtered
\* out) or "raise" (an exception reached the except clause)
TickerOutcome(ticker, md, inp) ==
    IF FetchRaises(md) # "" THEN [k |-> "raise", why |-> FetchRaises(md)]
    ELSE IF FilterOutcome(Indicators(md), inp) = "raise"
         THEN [k |-> "raise", why |-> "TypeError"]
    ELSE IF FilterOutcome(Indicators(md), inp) = "fail" THEN [k |-> "skip", why |-> ""]
    ELSE [k |-> "row", why |-> ""]

----------------------------------------------------------------------------
(* Ranking and allocation: lines 119-135                                   *)

\* row a may stand directly before row b in a frame sorted by "Momentum (%)"
\* descending with na_position="last"
InOrder(a, b) ==
    \/ IsNaN(b.Momentum)
    \/ (~IsNaN(a.Momentum) /\ FGe(a.Momentum, b.Momentum))

\* rows a and b compare equal under the sort key
SameKey(a, b) ==
    \/ (IsNaN(a.Momentum) /\ IsNaN(b.Momentum))
    \/ FEq(a.Momentum, b.Momentum)

RECURSIVE InsertRow(_, _)
\* r put into the sorted frame s behind every row it does not strictly beat
InsertRow(r, s) ==
    IF s = <<>> THEN <<r>>
    ELSE IF InOrder(Head(s), r) THEN <<Head(s)>> \o InsertRow(r, Tail(s))
    ELSE <<r>> \o s

RECURSIVE StableSort(_)
\* the rows of s by momentum descending, equal keys in the order of s
StableSort(s) ==
    IF s = <<>> THEN <<>>
    ELSE InsertRow(s[Len(s)], StableSort(SubSeq(s, 1, Len(s) - 1)))

\* length of the run of equal keys at the head of the sorted frame s
RECURSIVE RunLen(_)
RunLen(s) ==
    IF Len(s) <= 1 THEN Len(s)
    ELSE IF SameKey(s[1], s[2]) THEN 1 + RunLen(Tail(s))
    ELSE 1

Orderings(s) ==
    {[j \in DOMAIN s |-> s[f[j]]] :
        f \in {g \in [DOMAIN s -> DOMAIN s] : \A a, b \in DOMAIN s : a # b => g[a] # g[b]}}

RECURSIVE Arrangements(_)
\* every frame that keeps the runs of the sorted frame s in place and orders
\* the rows inside each run in any way
Arrangements(s) ==
    IF s = <<>> THEN {<<>>}
    ELSE LET r == RunLen(s)
         IN  {p \o q : p \in Orderings(SubSeq(s, 1, r)),
                       q \in Arrangements(SubSeq(s, r + 1, Len(s)))}

\* the frame left as the loop built it
SortOutcomes_unsorted(rows) == {rows}

\* sort_values("Momentum (%)", ascending=False) with the default
\* kind="quicksort", which pandas documents as not stable: every descending
\* order of the rows is a possible result
SortOutcomes(rows) == Arrangements(StableSort(rows))

\* lines 122-127
BasePct(risk) ==
    IF risk = "Low" THEN LowPct
    ELSE IF risk = "Medium" THEN MediumPct
    ELSE HighPct

NumStocks_uncapped(n) == n

\* line 130: num_stocks = min(10, len(df))
NumStocks(n) == MinInt(MaxPositions, n)

PerPosition_base_only(risk, n) == Int2Num(BasePct(risk))

\* line 131: allocation = min(allocation, 100/num_stocks)
PerPosition(risk, n) ==
    PyMin(Int2Num(BasePct(risk)), FDiv(Int2Num(Hundred), Int2Num(n)))

\* line 132: df["Allocation (%)"] = allocation
WithAllocation(frame, a) ==
    [j \in DOMAIN frame |->
        [Ticker |-> frame[j].Ticker, Momentum |-> frame[j].Momentum,
         RSI |-> frame[j].RSI, Volume |-> frame[j].Volume, PE |-> frame[j].PE,
         ROE |-> frame[j].ROE, DE |-> frame[j].DE, Allocation |-> a]]

\* line 135: df.head(n)
FrameHead(frame, n) == SubSeq(frame, 1, MinInt(n, Len(frame)))

----------------------------------------------------------------------------
(* Inputs: the universe, the provider's answers and the widget values      *)

Risks == {"Low", "Medium", "High"}


\* the widgets' default values (lines 50-64)
DefaultThresholds ==
    [min_pe |-> Int2Num(5), min_roe |-> Int2Num(10),
     max_debt_equity |-> Int2Num(2), min_market_cap |-> Num(1, 2),
     min_rsi |-> Int2Num(40), min_volume |-> Num(1, 2)]

\* two values per widget: the default and one the user may enter instead
ThresholdGrid ==
    [min_pe : {Int2Num(5), Int2Num(25)},
     min_roe : {Int2Num(10), Int2Num(0)},
     max_debt_equity : {Int2Num(2), Int2Num(4)},
     min_market_cap : {Num(1, 2), Int2Num(0)},
     min_rsi : {Int2Num(40), Int2Num(70)},
     min_volume : {Num(1, 2), Int2Num(2)}]

Differences(a, b) ==
    Cardinality({f \in DOMAIN a : a[f] # b[f]})

\* the default form with at most one widget changed
OneChanged == {t \in ThresholdGrid : Differences(t, DefaultThresholds) <= 1}

WithRisk(risk, t) ==
    [risk_tolerance |-> risk, min_pe |-> t.min_pe, min_roe |-> t.min_roe,
     max_debt_equity |-> t.max_debt_equity, min_market_cap |-> t.min_market_cap,
     min_rsi |-> t.min_rsi, min_volume |-> t.min_volume]

Download(c) == [err |-> FALSE, close |-> c]
DownloadFails == [err |-> TRUE, close |-> <<>>]

History(c, v) == [err |-> FALSE, close |-> c, volume |-> v]
HistoryFails == [err |-> TRUE, close |-> <<>>, volume |-> <<>>]
GoodHistory == History(<<1, 1>>, <<Million, Million>>)

Info(pe, roe, de, cap) ==
    [err |-> FALSE, trailingPE |-> pe, returnOnEquity |-> roe,
     debtToEquity |-> de, marketCap |-> cap]
InfoFails ==
    [err |-> TRUE, trailingPE |-> Absent, returnOnEquity |-> Absent,
     debtToEquity |-> Absent, marketCap |-> Absent]
GoodInfo == Info(Int2Num(20), Num(3, 20), Int2Num(1), Int2Num(Billion))

MarketData(dl, hist, info) == [download |-> dl, history |-> hist, info |-> info]

\* a ticker that passes the default filters, with the Close series c
Good(c) == MarketData(Download(c), GoodHistory, GoodInfo)

\* every Close series of at most MaxLen samples with prices in 0..MaxPrice
SeriesSpace == UNION {[1..n -> 0..MaxPrice] : n \in 0..MaxLen}

HistorySpace ==
    {HistoryFails, GoodHistory, History(<<>>, <<>>),
     History(<<1, 1>>, <<0, 100000>>), History(<<1, 2>>, <<Million, Million>>)}

InfoSpace ==
    {InfoFails} \cup
    {Info(pe, roe, de, cap) :
        pe \in {Absent, None, Int2Num(20), Int2Num(3)},
        roe \in {Absent, Int2Num(0), Num(3, 20), Num(1, 20)},
        de \in {Absent, None, Int2Num(1), Int2Num(3)},
        cap \in {Absent, None, Int2Num(Billion), Int2Num(100000000)}}

\* a few answers of each kind: rising, falling and undefined momentum, a
\* failed and an empty download, and fundamentals that are missing or None
SmallPalette ==
    {Good(<<1, 2>>), Good(<<2, 1>>), Good(<<0, 0>>),
     MarketData(DownloadFails, GoodHistory, GoodInfo),
     Good(<<>>),
     MarketData(Download(<<1, 2>>), GoodHistory,
                Info(Absent, Num(3, 20), Int2Num(1), Int2Num(Billion))),
     MarketData(Download(<<1, 2>>), GoodHistory,
                Info(Int2Num(20), Num(3, 20), None, Int2Num(Billion))),
     MarketData(Download(<<1, 2>>), GoodHistory,
                Info(Int2Num(20), Num(3, 20), Int2Num(1), Absent))}

\* the symbols of a sheet of n rows
Universe(n) == [i \in 1..n |-> i]

\* the wide universe: momentum differs from ticker to ticker, except that
\* ticker tieAt + 1 repeats ticker tieAt; every bad-th ticker fails, in turn
\* by a failed download and by a missing P/E
WideKey(i, tieAt) ==
    LET j == IF tieAt > 0 /\ i = tieAt + 1 THEN tieAt ELSE i
    IN  (7 * j) % (MaxWideTickers + 1)

WideData(i, tieAt, bad) ==
    IF bad > 0 /\ i % bad = 0
    THEN IF (i \div bad) % 2 = 1
         THEN MarketData(DownloadFails, GoodHistory, GoodInfo)
         ELSE MarketData(Download(<<1, 1 + WideKey(i, tieAt)>>), GoodHistory,
                         Info(Absent, Num(3, 20), Int2Num(1), Int2Num(Billion)))
    ELSE Good(<<1, 1 + WideKey(i, tieAt)>>)

----------------------------------------------------------------------------
(* The script                                                              *)

Start ==
    /\ pc = "idle"
    /\ idx = 0
    /\ visited = <<>>
    /\ momentum_data = <<>>
    /\ ranked = <<>>
    /\ df = <<>>
    /\ allocation = NaN
    /\ num_stocks = 0
    /\ output = <<>>

\* a short universe, every ticker answered from SmallPalette, the filter
\* widgets left at their defaults
Init ==
    /\ \E n \in 0..MaxTickers :
         /\ tickers = Universe(n)
         /\ market \in [1..n -> SmallPalette]
    /\ \E risk \in Risks : inputs = WithRisk(risk, DefaultThresholds)
    /\ Start

\* a sheet of two symbols: the first answered with any fundamentals and
\* history, the second good; the risk radio is left on its first option
InitFilter ==
    /\ tickers = Universe(2)
    /\ \E hist \in HistorySpace, info \in InfoSpace :
         market = [i \in 1..2 |->
                     IF i = 1 THEN MarketData(Download(<<1, 2>>), hist, info)
                     ELSE Good(<<2, 1>>)]
    /\ \E t \in OneChanged : inputs = WithRisk("Low", t)
    /\ Start

\* the first ticker answered with any Close series, the others good
InitSeries ==
    /\ \E n \in 1..MaxTickers, dl \in {DownloadFails} \cup {Download(c) : c \in SeriesSpace} :
         /\ tickers = Universe(n)
         /\ market = [i \in 1..n |->
                        IF i = 1 THEN MarketData(dl, GoodHistory, GoodInfo)
                        ELSE Good(<<1, 2>>)]
    /\ \E risk \in Risks : inputs = WithRisk(risk, DefaultThresholds)
    /\ Start

\* a sheet of up to MaxWideTickers symbols
InitWide ==
    /\ \E n \in 0..MaxWideTickers, tieAt \in 0..MaxTieAt, bad \in 0..MaxBadEvery :
         /\ tickers = Universe(n)
         /\ market = [i \in 1..n |-> WideData(i, tieAt, bad)]
    /\ \E risk \in Risks : inputs = WithRisk(risk, DefaultThresholds)
    /\ Start

ScanRange_whole(list) == list

\* tickers[:50]
ScanRange(list) == SubSeq(list, 1, MinInt(ScanLimit, Len(list)))

AfterRaise_abort(rows) == [rows |-> <<>>, pc |-> "stopped"]

\* except Exception as e: continue
AfterRaise(rows) == [rows |-> rows, pc |-> "scan"]

IsEmptyResult_never(rows) == FALSE

\* line 115: not momentum_data
IsEmptyResult(rows) == rows = <<>>

Shown(kind, frame, count, pct, total) ==
    [kind |-> kind, frame |-> frame, count |-> count, pct |-> pct, total |-> total]

\* the button is pressed: line 75
RunScan ==
    /\ pc = "idle"
    /\ pc' = "scan"
    /\ momentum_data' = <<>>
    /\ idx' = 0
    /\ visited' = <<>>
    /\ UNCHANGED <<tickers, market, inputs, ranked, df, allocation, num_stocks, output>>

\* the ticker the next iteration takes
CurrentTicker == ScanRange(tickers)[idx + 1]

\* the result list after the try block has run for `ticker`
RowsAfter(rows, ticker, md, inp) ==
    IF TickerOutcome(ticker, md, inp).k = "raise" THEN AfterRaise(rows).rows
    ELSE IF TickerOutcome(ticker, md, inp).k = "row"
         THEN Append(rows, Row(ticker, Indicators(md)))
    ELSE rows

\* where the script stands after the try block has run for `ticker`
PcAfter(rows, ticker, md, inp) ==
    IF TickerOutcome(ticker, md, inp).k = "raise" THEN AfterRaise(rows).pc
    ELSE "scan"

\* one iteration of the for loop: lines 76-113
ScanStep ==
    /\ pc = "scan"
    /\ idx < Len(ScanRange(tickers))
    /\ visited' = Append(visited, CurrentTicker)
    /\ idx' = idx + 1
    /\ momentum_data' = RowsAfter(momentum_data, CurrentTicker, market[CurrentTicker], inputs)
    /\ pc' = PcAfter(momentum_data, CurrentTicker, market[CurrentTicker], inputs)
    /\ UNCHANGED <<tickers, market, inputs, ranked, df, allocation, num_stocks, output>>

\* lines 115-117: st.warning(...) and st.stop()
NoSurvivors ==
    /\ pc = "scan"
    /\ idx = Len(ScanRange(tickers))
    /\ IsEmptyResult(momentum_data)
    /\ output' = Append(output, Shown("warning_no_match", <<>>, 0, NaN, NaN))
    /\ pc' = "stopped"
    /\ UNCHANGED <<tickers, market, inputs, idx, visited, momentum_data, ranked, df,
                   allocation, num_stocks>>

\* what lines 140-163 put on the page
Display(shown, n, a) ==
    <<Shown("success", <<>>, Len(shown), NaN, NaN),
      Shown("dataframe", shown, Len(shown), NaN, NaN),
      Shown("summary", <<>>, n, a, FMul(Int2Num(n), a)),
      Shown("metrics", <<>>, 0, NaN, NaN),
      Shown("warning_disclaimer", <<>>, 0, NaN, NaN)>>

\* lines 119-163: sort, size the positions, keep the top rows, show them.
\* 100/num_stocks on Python ints raises ZeroDivisionError when num_stocks is
\* 0, which ends the run with an uncaught exception
RankAndAllocate ==
    /\ pc = "scan"
    /\ idx = Len(ScanRange(tickers))
    /\ ~IsEmptyResult(momentum_data)
    /\ \E r \in SortOutcomes(momentum_data) :
         /\ ranked' = r
         /\ num_stocks' = NumStocks(Len(r))
         /\ pc' = IF NumStocks(Len(r)) = 0 THEN "crashed" ELSE "done"
         /\ allocation' =
              IF NumStocks(Len(r)) = 0 THEN allocation
              ELSE PerPosition(inputs.risk_tolerance, NumStocks(Len(r)))
         /\ df' =
              IF NumStocks(Len(r)) = 0 THEN df
              ELSE FrameHead(WithAllocation(r, PerPosition(inputs.risk_tolerance,
                                                           NumStocks(Len(r)))),
                             NumStocks(Len(r)))
         /\ output' =
              IF NumStocks(Len(r)) = 0
              THEN Append(output, Shown("exception", <<>>, 0, NaN, NaN))
              ELSE output \o
                   Display(FrameHead(WithAllocation(r, PerPosition(inputs.risk_tolerance,
                                                                   NumStocks(Len(r)))),
                                     NumStocks(Len(r))),
                           NumStocks(Len(r)),
                           PerPosition(inputs.risk_tolerance, NumStocks(Len(r))))
    /\ UNCHANGED <<tickers, market, inputs, idx, visited, momentum_data>>

Next == RunScan \/ ScanStep \/ NoSurvivors \/ RankAndAllocate

Spec == Init /\ [][Next]_vars
SpecFilter == InitFilter /\ [][Next]_vars
SpecSeries == InitSeries /\ [][Next]_vars
SpecWide == InitWide /\ [][Next]_vars

----------------------------------------------------------------------------
(* Properties                                                              *)

Finished == pc \in {"stopped", "done", "crashed"}

\* the outcome of the try block for the ticker at position i of the sheet
OutcomeAt(i) == TickerOutcome(tickers[i], market[tickers[i]], inputs).k

Scanned == 1..MinInt(50, Len(tickers))

RowTickers(frame) == {frame[j].Ticker : j \in DOMAIN frame}

\* C1: whenever a portfolio is shown, the percentage written to every row of
\* the Allocation (%) column, times the number of rows shown, is at most 100
C1_TotalAtMost100 ==
    pc = "done" =>
        /\ Len(df) >= 1
        /\ \A j \in DOMAIN df :
             FLe(FMul(df[j].Allocation, Int2Num(Len(df))), Int2Num(100))

\* C1 witness: High risk with nine rows shown, where 100/9 replaces the base 12
C1_Witness ==
    /\ pc = "done"
    /\ inputs.risk_tolerance = "High"
    /\ Len(df) = 9
    /\ df[1].Allocation = Num(100, 9)

\* the base percentage of a risk tier as the spec gives it
TierPct(risk) == CASE risk = "Low" -> 5 [] risk = "Medium" -> 8 [] risk = "High" -> 12

\* frame a is frame b with its rows in another order
SameRows(a, b) ==
    /\ Len(a) = Len(b)
    /\ RowTickers(a) = RowTickers(b)
    /\ \A j \in DOMAIN a : \E k \in DOMAIN b : a[j] = b[k]

\* C7: position_count = min(10, survivors); the rows shown are the first
\* position_count rows of the descending ranking, none of them with less
\* momentum than a survivor left out, and every row carries the same
\* percentage min(base, 100 / position_count), base being 5, 8 or 12
C7_TopRowsEqualShare ==
    pc = "done" =>
        LET survivors == Len(momentum_data)
            cap == IF survivors <= 10 THEN survivors ELSE 10
            base == TierPct(inputs.risk_tolerance)
            share == IF base * cap <= 100 THEN Num(base, 1) ELSE Num(100, cap)
        IN  /\ num_stocks = cap
            /\ Len(df) = cap
            /\ SameRows(ranked, momentum_data)
            /\ \A j \in 1..(Len(ranked) - 1) : InOrder(ranked[j], ranked[j + 1])
            /\ \A j \in DOMAIN df :
                 /\ df[j].Ticker = ranked[j].Ticker
                 /\ df[j].Momentum = ranked[j].Momentum
                 /\ df[j].Allocation = share
            /\ allocation = share
            /\ \A j \in 1..cap, k \in (cap + 1)..Len(ranked) :
                 InOrder(ranked[j], ranked[k])

\* C7 witness: more than ten survivors, ten shown, and the tenth and eleventh
\* of the ranking have the same momentum
C7_Witness ==
    /\ pc = "done"
    /\ Len(momentum_data) > 10
    /\ Len(df) = 10
    /\ FEq(ranked[10].Momentum, ranked[11].Momentum)
    /\ inputs.risk_tolerance = "High"
    /\ allocation = Num(10, 1)

\* what holds in every state of a scan: the loop has taken the first idx
\* entries of the sheet, in sheet order, and the rows it kept are in sheet
\* order and come from the first 50 positions
C10_InOrder ==
    /\ idx <= MinInt(50, Len(tickers))
    /\ visited = SubSeq(tickers, 1, idx)
    /\ pc \in {"stopped", "done"} => idx = MinInt(50, Len(tickers))
    /\ pc # "crashed"
    /\ \A j, k \in DOMAIN momentum_data :
         j < k => momentum_data[j].Ticker < momentum_data[k].Ticker
    /\ \A t \in RowTickers(momentum_data) \cup RowTickers(ranked) \cup RowTickers(df) :
         /\ t <= 50
         /\ \E i \in 1..idx : visited[i] = t

\* what every step does: a step inside the loop takes exactly the next entry;
\* the step after the last entry leaves the loop, and no step follows it
C10_Step ==
    /\ pc = "idle" => pc' = "scan" /\ idx' = 0
    /\ pc = "scan" =>
         \/ /\ idx < MinInt(50, Len(tickers))
            /\ idx' = idx + 1
            /\ pc' = "scan"
            /\ visited' = Append(visited, tickers[idx + 1])
         \/ /\ idx = MinInt(50, Len(tickers))
            /\ idx' = idx
            /\ visited' = visited
            /\ pc' \in {"stopped", "done"}
    /\ pc \in {"stopped", "done"} => FALSE

\* C10: the loop takes the first min(50, len(tickers)) entries of the sheet,
\* each once and in sheet order, and then the run ends (no run has more than
\* min(50, len) + 2 steps); the result list is in sheet order and holds no
\* ticker from beyond position 50
C10_FirstFiftyInOrder == []C10_InOrder /\ [][C10_Step]_vars

\* C10 witness: a sheet of more than 50 symbols scanned to the end
C10_Witness ==
    /\ pc = "done"
    /\ Len(tickers) > 50
    /\ Len(visited) = 50
    /\ visited[50] = tickers[50]
    /\ Len(momentum_data) > 10

\* the rows the loop has kept so far are those of the visited tickers whose
\* try block ran to the append, in the order visited
RECURSIVE KeptOf(_)
KeptOf(seen) ==
    IF seen = <<>> THEN <<>>
    ELSE LET t == seen[Len(seen)]
             before == KeptOf(SubSeq(seen, 1, Len(seen) - 1))
         IN  IF TickerOutcome(t, market[t], inputs).k = "row"
             THEN Append(before, t)
             ELSE before

\* C2: a ticker whose try block raises is left out and nothing else changes:
\* the loop goes on to the end of the list, and the result list holds exactly
\* the visited tickers that passed, raising tickers before or between them
\* notwithstanding
C2_ErrorSkipsOneTicker ==
    /\ pc # "crashed"
    /\ [j \in DOMAIN momentum_data |-> momentum_data[j].Ticker] = KeptOf(visited)
    /\ Finished => visited = SubSeq(tickers, 1, MinInt(50, Len(tickers)))
    /\ pc = "stopped" => momentum_data = <<>>

\* C2 witness: the first ticker was kept, the second raised, the third was kept
C2_Witness ==
    /\ pc = "done"
    /\ Len(tickers) = 3
    /\ OutcomeAt(1) = "row"
    /\ OutcomeAt(2) = "raise"
    /\ OutcomeAt(3) = "row"
    /\ RowTickers(momentum_data) = {1, 3}

\* C3: a scan that ends with no survivor ends stopped, with the warning as the
\* only thing shown; nothing was sorted, sized or displayed, and no run ends in
\* an exception
C3_NoSurvivorsWarns ==
    /\ pc # "crashed"
    /\ (Finished /\ momentum_data = <<>>) =>
         /\ pc = "stopped"
         /\ Len(output) = 1
         /\ output[1].kind = "warning_no_match"
         /\ ranked = <<>>
         /\ df = <<>>
         /\ num_stocks = 0
         /\ allocation = NaN
    /\ pc = "done" => momentum_data # <<>> /\ num_stocks >= 1

\* C3 witness: three tickers scanned, none kept, the warning shown
C3_Witness ==
    /\ pc = "stopped"
    /\ Len(visited) = 3
    /\ \E i \in Scanned : OutcomeAt(i) = "raise"
    /\ \E i \in Scanned : OutcomeAt(i) = "skip"
    /\ output[1].kind = "warning_no_match"

\* C5 as claimed: the ranking is by momentum descending and survivors of equal
\* momentum keep the order of the ticker list
C5_StableRanking ==
    pc = "done" =>
        \A j, k \in DOMAIN ranked :
            j < k =>
                /\ InOrder(ranked[j], ranked[k])
                /\ FEq(ranked[j].Momentum, ranked[k].Momentum)
                     => ranked[j].Ticker < ranked[k].Ticker

\* C5 as amended: the ranking holds the survivors, each once, by momentum
\* descending with the rows of undefined momentum last
C5_DescendingRanking ==
    pc = "done" =>
        /\ SameRows(ranked, momentum_data)
        /\ \A j, k \in DOMAIN ranked :
             j < k =>
                \/ IsNaN(ranked[k].Momentum)
                \/ (~IsNaN(ranked[j].Momentum)
                    /\ FGe(ranked[j].Momentum, ranked[k].Momentum))

\* C5 witness: the loop kept a lower momentum before a higher one and the
\* ranking put the higher one first
C5_Witness ==
    /\ pc = "done"
    /\ Len(momentum_data) >= 2
    /\ ~FGe(momentum_data[1].Momentum, momentum_data[2].Momentum)
    /\ ~IsNaN(momentum_data[1].Momentum)
    /\ ~IsNaN(momentum_data[2].Momentum)
    /\ ranked[1].Ticker = momentum_data[2].Ticker

\* the tickers the page names anywhere
ReportedTickers == UNION {RowTickers(output[m].frame) : m \in DOMAIN output}

\* C9 as claimed: once the run has ended, every ticker whose try block raised
\* is on record in what the page reports
C9_ErrorsReported ==
    Finished =>
        \A i \in DOMAIN visited :
            TickerOutcome(visited[i], market[visited[i]], inputs).k = "raise"
                => visited[i] \in ReportedTickers

\* the provider gave every indicator of ticker t: the four fundamentals are
\* present and not None, and the history has the samples RSI and volume need
AllIndicatorsGiven(t) ==
    /\ market[t].info.trailingPE \notin {Absent, None}
    /\ market[t].info.returnOnEquity \notin {Absent, None}
    /\ market[t].info.debtToEquity \notin {Absent, None}
    /\ market[t].info.marketCap \notin {Absent, None}
    /\ Len(market[t].history.close) >= 2
    /\ Len(market[t].history.volume) >= 1

SixPredicatesHold(t) ==
    /\ PredPE(Indicators(market[t]), inputs)
    /\ PredROE(Indicators(market[t]), inputs)
    /\ PredDE(Indicators(market[t]), inputs)
    /\ PredCap(Indicators(market[t]), inputs)
    /\ PredRSI(Indicators(market[t]), inputs)
    /\ PredVolume(Indicators(market[t]), inputs)

\* C4 as claimed: a ticker is in the result only if all six predicates hold
\* for it, and whatever the thresholds, never when one of its indicators is
\* missing
C4_MissingNeverPasses ==
    \A t \in RowTickers(momentum_data) :
        /\ SixPredicatesHold(t)
        /\ AllIndicatorsGiven(t)

\* the thresholds t2 are at least as strict as the thresholds t1
Tighter(t2, t1) ==
    /\ FGe(t2.min_pe, t1.min_pe)
    /\ FGe(t2.min_roe, t1.min_roe)
    /\ FLe(t2.max_debt_equity, t1.max_debt_equity)
    /\ FGe(t2.min_market_cap, t1.min_market_cap)
    /\ FGe(t2.min_rsi, t1.min_rsi)
    /\ FGe(t2.min_volume, t1.min_volume)

\* the tickers a scan of the same sheet and market data keeps under thresholds t
SurvivorsUnder(t) ==
    {tickers[i] : i \in {m \in Scanned :
        TickerOutcome(tickers[m], market[tickers[m]],
                      WithRisk(inputs.risk_tolerance, t)).k = "row"}}

\* C8: the survivors of a finished scan include the survivors the same data
\* gives under any thresholds at least as strict, so tightening a threshold
\* never adds a survivor
C8_TighteningShrinks ==
    Finished =>
        \A t2 \in ThresholdGrid :
            Tighter(t2, inputs) => SurvivorsUnder(t2) \subseteq RowTickers(momentum_data)

\* C8 witness: a finished scan kept a ticker that stricter thresholds drop
C8_Witness ==
    /\ pc = "done"
    /\ \E t2 \in ThresholdGrid :
         /\ Tighter(t2, inputs)
         /\ SurvivorsUnder(t2) # RowTickers(momentum_data)
         /\ SurvivorsUnder(t2) # {}

\* (last / first - 1) * 100 of a non-empty series in float arithmetic
ExpectedMomentum(c) ==
    IF c[1] > 0 THEN Num((c[Len(c)] - c[1]) * 100, c[1])
    ELSE IF c[Len(c)] > 0 THEN PosInf
    ELSE NaN

FirstSeries == market[1].download.close

\* C6 as claimed: once ticker 1 has been processed, a series of fewer than two
\* samples has given no momentum and no candidate
C6_ShortSeriesUnavailable ==
    (idx >= 1 /\ Len(FirstSeries) < 2) => 1 \notin RowTickers(momentum_data)

\* C6 as amended: a series of at least one sample gives the candidate the
\* momentum (last / first - 1) * 100, and only an empty series (or a failed
\* download) gives no momentum and no candidate
C6_MomentumFromOneSample ==
    idx >= 1 =>
        IF market[1].download.err \/ FirstSeries = <<>>
        THEN 1 \notin RowTickers(momentum_data)
        ELSE /\ momentum_data # <<>>
             /\ momentum_data[1].Ticker = 1
             /\ momentum_data[1].Momentum = ExpectedMomentum(FirstSeries)

\* C6 witness: a one-sample series produced a candidate with momentum 0
C6_Witness ==
    /\ idx >= 1
    /\ Len(FirstSeries) = 1
    /\ momentum_data # <<>>
    /\ momentum_data[1].Ticker = 1
    /\ momentum_data[1].Momentum = Num(0, 1)

====
